---- MODULE Spec2Model ----
(***************************************************************************)
(* Model of src/index.tsx: the photo-to-comic view controller.             *)
(*                                                                         *)
(* The page is single threaded.  Every action below is one task of the     *)
(* event loop: a DOM event handler, a FileReader callback together with    *)
(* the promise continuation it releases, or the settlement of the remote   *)
(* call together with the rest of handleConvertToComic.                    *)
(***************************************************************************)
EXTENDS Integers, Sequences, FiniteSets, TLC

(* ------------------------------ bounds --------------------------------- *)
\* number of distinct files the user can pick
NumFiles == 2
\* number of conversions that can be suspended at an await at the same time
MaxConv == 2
\* longest byte content of a file handed to the codec
MaxBytes == 3

(* ------------------------------ strings -------------------------------- *)
Base64Alphabet == "ABCDEFGHIJKLMNOPQRSTUVWXYZabcdefghijklmnopqrstuvwxyz0123456789+/"

B64Char(i) == SubSeq(Base64Alphabet, i + 1, i + 1)

RECURSIVE Base64Encode(_)
\* the base64 text FileReader.readAsDataURL puts after the comma (RFC 4648)
Base64Encode(bytes) ==
    IF Len(bytes) = 0 THEN ""
    ELSE IF Len(bytes) = 1 THEN
        B64Char(bytes[1] \div 4) \o B64Char((bytes[1] % 4) * 16) \o "=="
    ELSE IF Len(bytes) = 2 THEN
        B64Char(bytes[1] \div 4)
        \o B64Char((bytes[1] % 4) * 16 + (bytes[2] \div 16))
        \o B64Char((bytes[2] % 16) * 4) \o "="
    ELSE
        B64Char(bytes[1] \div 4)
        \o B64Char((bytes[1] % 4) * 16 + (bytes[2] \div 16))
        \o B64Char((bytes[2] % 16) * 4 + (bytes[3] \div 64))
        \o B64Char(bytes[3] % 64)
        \o Base64Encode(SubSeq(bytes, 4, Len(bytes)))

\* FileReader.readAsDataURL(file): the value of reader.result on load
ReadAsDataURL(type, bytes) == "data:" \o type \o ";base64," \o Base64Encode(bytes)

\* index of the first occurrence of the one-character string ch in s at or
\* after position from; Len(s) + 1 when there is none
RECURSIVE IndexOf(_, _, _)
IndexOf(s, ch, from) ==
    IF from > Len(s) THEN Len(s) + 1
    ELSE IF SubSeq(s, from, from) = ch THEN from
    ELSE IndexOf(s, ch, from + 1)

Undefined == "<undefined>"

\* s.split(',')[1]: the text between the first and the second comma,
\* undefined when s has no comma
SplitCommaSecond(s) ==
    LET c1 == IndexOf(s, ",", 1)
        c2 == IndexOf(s, ",", c1 + 1)
    IN  IF c1 > Len(s) THEN Undefined ELSE SubSeq(s, c1 + 1, c2 - 1)

\* variant: the prefix is not removed
FileToBase64_KeepsPrefix(type, bytes) == ReadAsDataURL(type, bytes)

\* the value fileToBase64 resolves with when the read succeeds
FileToBase64(type, bytes) == SplitCommaSecond(ReadAsDataURL(type, bytes))

\* TRUE iff sub occurs in s
Contains(s, sub) ==
    \E i \in 1..(Len(s) - Len(sub) + 1) : SubSeq(s, i, i + Len(sub) - 1) = sub

\* number of occurrences of sub in s
Occurrences(s, sub) ==
    Cardinality({i \in 1..(Len(s) - Len(sub) + 1) : SubSeq(s, i, i + Len(sub) - 1) = sub})

StartsWith(s, pre) == Len(pre) <= Len(s) /\ SubSeq(s, 1, Len(pre)) = pre

(* --------------------------- prompt builder ---------------------------- *)
\* the typographic apostrophe of the source is written ' here
baseInstruction == "Convert this photo into a clean, high-contrast comic illustration with inky outlines, simplified shading, and halftone texture. Preserve the subject's identity and scene composition."

Styles == {"manga", "western", "pop-art", "cel-shade"}

styleMap ==
    [s \in Styles |->
        CASE s = "manga" -> "Style it like black-and-white manga, with screentone halftone, fine linework, and dynamic speed lines."
          [] s = "western" -> "Style it like a classic Western comic, with bold ink lines, flat cel-shading, and CMYK halftone dots."
          [] s = "pop-art" -> "Style it like Pop-art, with a bright saturated palette, thick outlines, and prominent halftone dots for a poster look."
          [] s = "cel-shade" -> "Style it with a clean cel-shaded look, using minimal outlines, smooth cel shadows, and a soft background."]

backgroundClause == " Replace the background with a clean white background."

frameClause == " Add a classic comic book panel frame around the image, including a small empty caption box at the bottom."

\* variant: the lookup key is ignored and the first entry is used
StyleLookup_FirstEntry(value) == styleMap["manga"]

\* styleMap[value] inside a template literal: a missing key reads as undefined
StyleLookup(value) == IF value \in DOMAIN styleMap THEN styleMap[value] ELSE "undefined"

\* variant: the negation in the keep-background test is missing
buildPrompt_InvertedBackground(style, keepBg, frame) ==
    LET p0 == baseInstruction
        p1 == p0 \o " " \o StyleLookup(style)
        p2 == IF keepBg THEN p1 \o backgroundClause ELSE p1
        p3 == IF frame THEN p2 \o frameClause ELSE p2
    IN  p3

\* buildPrompt(), as a function of the three controls it reads
buildPrompt(style, keepBg, frame) ==
    LET p0 == baseInstruction
        p1 == p0 \o " " \o StyleLookup(style)
        p2 == IF ~keepBg THEN p1 \o backgroundClause ELSE p1
        p3 == IF frame THEN p2 \o frameClause ELSE p2
    IN  p3

(* ------------------------------- files --------------------------------- *)
MimeTypes == <<"image/png", "image/jpeg", "image/webp">>

Files == 1..NumFiles

\* uploadedFile before the first selection (null)
NoFile == 0

\* File.type, File.name and the content of the f-th file the user can pick
FileType(f) == MimeTypes[((f - 1) % Len(MimeTypes)) + 1]

FileName(f) == "photo" \o ToString(f)

FileBytes(f) == <<137, 80 + f, 255 - f, f>>

\* reader.result of a successful readAsDataURL of each file
FileDataURL == [f \in Files |-> ReadAsDataURL(FileType(f), FileBytes(f))]

\* what fileToBase64(file) resolves with, for each file
FilePayload == [f \in Files |-> FileToBase64(FileType(f), FileBytes(f))]

\* a value of the style selector that styleMap has no entry for (the option
\* list is markup, which is not part of the source)
OtherStyle == "sketch"

\* the values comicStyleSelect.value can hold
StyleOptions == Styles \cup {OtherStyle}

\* buildPrompt() tabulated over the states of the three controls
PromptFor == [s \in StyleOptions, k \in BOOLEAN, f \in BOOLEAN |-> buildPrompt(s, k, f)]

(* ------------------------------ DOM values ----------------------------- *)
\* comicOutputDiv is modelled by the list of its child nodes
Node(tag, cls, text, src) == [tag |-> tag, cls |-> cls, text |-> text, src |-> src]

Placeholder == <<Node("div", "placeholder", "Your comic version will appear here.", "")>>

Spinner == <<Node("div", "spinner", "", "")>>

GenericError == <<Node("p", "red", "An error occurred. Please try again.", "")>>

NoImageMessage == <<Node("p", "", "Could not generate an image from the response.", "")>>

ImageNode(url) == <<Node("img", "", "Generated comic-style image", url)>>

LabelIdle == "Convert to Comic"

LabelBusy == "Converting..."

(* --------------------------- remote responses -------------------------- *)
NoData == [data |-> "", mimeType |-> ""]

TextPart == [text |-> "Here is your comic.", inlineData |-> NoData]

InlinePart(mime, bytes) ==
    [text |-> "", inlineData |-> [data |-> Base64Encode(bytes), mimeType |-> mime]]

ImagePartA == InlinePart("image/png", <<1, 2, 3>>)

ImagePartB == InlinePart("image/jpeg", <<250, 9>>)

\* a candidate: its content.parts, or a content without parts
Candidate(parts) == [hasParts |-> TRUE, parts |-> parts]

CandidateNoParts == [hasParts |-> FALSE, parts |-> <<>>]

\* the simulated remote responses, each a candidates list: no candidate, a
\* candidate without parts, no part, text only, image only, text then image
Responses ==
    {<<>>, <<CandidateNoParts>>, <<Candidate(<<>>)>>, <<Candidate(<<TextPart>>)>>,
     <<Candidate(<<ImagePartA>>)>>, <<Candidate(<<TextPart, ImagePartB>>)>>}

\* part.inlineData is truthy
HasInlineData(part) == part.inlineData # NoData

\* variant: the last matching part is taken instead of the first
FindImagePart_Last(parts) ==
    IF \E i \in 1..Len(parts) : HasInlineData(parts[i])
    THEN CHOOSE i \in 1..Len(parts) :
            /\ HasInlineData(parts[i])
            /\ \A j \in (i + 1)..Len(parts) : ~HasInlineData(parts[j])
    ELSE 0

\* parts.find(part => part.inlineData): index of the first match, 0 if none
FindImagePart(parts) ==
    IF \E i \in 1..Len(parts) : HasInlineData(parts[i])
    THEN CHOOSE i \in 1..Len(parts) :
            /\ HasInlineData(parts[i])
            /\ \A j \in 1..(i - 1) : ~HasInlineData(parts[j])
    ELSE 0

\* response.candidates[0].content.parts followed by parts.find raises a
\* TypeError when there is no candidate or the candidate has no parts
ResponseThrows(resp) == Len(resp) = 0 \/ ~resp[1].hasParts

(* ------------------------------- state --------------------------------- *)
VARIABLES
    uploadedFile,      \* the module-level slot: NoFile or a file
    fileNameText,      \* fileNameSpan.textContent
    originalSrc,       \* originalImage.src
    previewReads,      \* files whose preview FileReader has not fired yet
    comicStyle,        \* comicStyleSelect.value
    keepBackground,    \* keepBackgroundCheck.checked
    addFrame,          \* addFrameCheck.checked
    convertDisabled,   \* convertButton.disabled
    convertText,       \* convertButton.textContent
    comicOutput,       \* children of comicOutputDiv
    downloadDisplay,   \* downloadButton.style.display
    downloadHref,      \* downloadButton.href
    conv,              \* the suspended activations of handleConvertToComic
    alertOpen,         \* the modal alert() is showing
    lastRequest,       \* argument of the latest ai.models.generateContent call
    promptCall,        \* prompt harness: the latest buildPrompt() call
    codecFile,         \* codec harness: the file under test
    codecPreview,      \* codec harness: data URI read by the preview path
    codecPayload,      \* codec harness: value fileToBase64 resolved with
    displayParts,      \* display harness: argument of the latest displayResult call
    outputSource,      \* history: the file whose payload the displayed image was made from
    previewFailed      \* history: some preview read has failed

ctlVars == <<uploadedFile, fileNameText, originalSrc, previewReads, convertDisabled,
             convertText, comicOutput, downloadDisplay, downloadHref, conv,
             alertOpen, lastRequest>>

optVars == <<comicStyle, keepBackground, addFrame>>

codecVars == <<codecFile, codecPreview, codecPayload>>

harnessVars == <<promptCall, codecVars, displayParts>>

histVars == <<outputSource, previewFailed>>

vars == <<ctlVars, optVars, harnessVars, histVars>>

ConvIds == 1..MaxConv

IdleConv == [pc |-> "idle", file |-> NoFile]

NoRequest == [data |-> "", mimeType |-> "", text |-> ""]

NoCodecFile == [type |-> "", bytes |-> <<>>]

\* a read that has not fired its callback yet
Pending == "<pending>"

NoDisplayCall == [called |-> FALSE, parts |-> <<>>]

NoPromptCall == [style |-> "", keepBackground |-> FALSE, addFrame |-> FALSE, result |-> ""]

\* a conversion is outstanding from setLoadingState(true) to the finally block
Outstanding == {c \in ConvIds : conv[c].pc # "idle"}

\* the page as loaded: no file, nothing generated, no task has run.  The
\* markup is not part of the source, so the initial disabled attribute of the
\* convert button and the initial state of the two checkboxes are open.
InitCtl ==
    /\ uploadedFile = NoFile
    /\ fileNameText = ""
    /\ originalSrc = ""
    /\ previewReads = {}
    /\ convertDisabled \in BOOLEAN
    /\ convertText = LabelIdle
    /\ comicOutput = Placeholder
    /\ downloadDisplay = "none"
    /\ downloadHref = ""
    /\ conv = [c \in ConvIds |-> IdleConv]
    /\ alertOpen = FALSE
    /\ lastRequest = NoRequest
    /\ outputSource = NoFile
    /\ previewFailed = FALSE

InitIdleHarness ==
    /\ promptCall = NoPromptCall
    /\ displayParts = NoDisplayCall
    /\ codecFile = NoCodecFile
    /\ codecPreview = Pending
    /\ codecPayload = Pending

Init ==
    /\ InitCtl
    /\ comicStyle = "manga"
    /\ keepBackground = FALSE
    /\ addFrame = FALSE
    /\ InitIdleHarness

(* ------------------------------ operations ----------------------------- *)
\* setLoadingState(isLoading): what it writes; with isLoading false it leaves
\* comicOutput and downloadDisplay to its caller
setLoadingState(isLoading) ==
    /\ convertDisabled' = isLoading
    /\ IF isLoading
       THEN /\ convertText' = LabelBusy
            /\ comicOutput' = Spinner
            /\ downloadDisplay' = "none"
       ELSE convertText' = LabelIdle

\* displayResult(parts)
displayResult(parts) ==
    LET i == FindImagePart(parts) IN
    IF i # 0
    THEN LET imageUrl == "data:" \o parts[i].inlineData.mimeType
                         \o ";base64," \o parts[i].inlineData.data
         IN  /\ comicOutput' = ImageNode(imageUrl)
             /\ downloadHref' = imageUrl
             /\ downloadDisplay' = "inline-block"
    ELSE /\ comicOutput' = NoImageMessage
         /\ UNCHANGED <<downloadHref, downloadDisplay>>

\* variant: the catch block only logs the error
CatchError_LogsOnly ==
    UNCHANGED <<comicOutput, downloadHref, downloadDisplay>>

\* the catch block of handleConvertToComic
CatchError ==
    /\ comicOutput' = GenericError
    /\ UNCHANGED <<downloadHref, downloadDisplay>>

\* variant: the output container is not reset to the placeholder
HandleFileChange_KeepsOutput(f) ==
    /\ ~alertOpen
    /\ uploadedFile' = f
    /\ fileNameText' = FileName(f)
    /\ previewReads' = previewReads \cup {f}
    /\ convertDisabled' = FALSE
    /\ downloadDisplay' = "none"
    /\ UNCHANGED <<originalSrc, convertText, downloadHref, conv, alertOpen, lastRequest,
                   comicOutput>>
    /\ outputSource' = NoFile
    /\ UNCHANGED previewFailed
    /\ UNCHANGED <<optVars, harnessVars>>

\* handleFileChange with a non-empty file list whose first entry is f
HandleFileChange(f) ==
    /\ ~alertOpen
    /\ uploadedFile' = f
    /\ fileNameText' = FileName(f)
    /\ previewReads' = previewReads \cup {f}
    /\ convertDisabled' = FALSE
    /\ downloadDisplay' = "none"
    /\ comicOutput' = Placeholder
    /\ UNCHANGED <<originalSrc, convertText, downloadHref, conv, alertOpen, lastRequest>>
    /\ outputSource' = NoFile
    /\ UNCHANGED previewFailed
    /\ UNCHANGED <<optVars, harnessVars>>

\* variant: an empty selection clears the selected file
HandleFileChangeEmpty_ClearsFile ==
    /\ ~alertOpen
    /\ uploadedFile' = NoFile
    /\ UNCHANGED <<fileNameText, originalSrc, previewReads, convertDisabled,
                   convertText, comicOutput, downloadDisplay, downloadHref, conv,
                   alertOpen, lastRequest>>
    /\ UNCHANGED histVars
    /\ UNCHANGED <<optVars, harnessVars>>

\* handleFileChange when the dialog was left with no file: the if is skipped
HandleFileChangeEmpty ==
    /\ ~alertOpen
    /\ UNCHANGED <<uploadedFile, fileNameText, originalSrc, previewReads, convertDisabled,
                   convertText, comicOutput, downloadDisplay, downloadHref, conv,
                   alertOpen, lastRequest>>
    /\ UNCHANGED histVars
    /\ UNCHANGED <<optVars, harnessVars>>

\* reader.onload of the preview reader created for f
PreviewLoad(f) ==
    /\ ~alertOpen
    /\ f \in previewReads
    /\ previewReads' = previewReads \ {f}
    /\ originalSrc' = FileDataURL[f]
    /\ UNCHANGED <<uploadedFile, fileNameText, convertDisabled, convertText, comicOutput,
                   downloadDisplay, downloadHref, conv, alertOpen, lastRequest>>
    /\ UNCHANGED histVars
    /\ UNCHANGED <<optVars, harnessVars>>

\* the preview read of f fails: the reader has no onerror handler
PreviewError(f) ==
    /\ ~alertOpen
    /\ f \in previewReads
    /\ previewReads' = previewReads \ {f}
    /\ UNCHANGED <<uploadedFile, fileNameText, originalSrc, convertDisabled, convertText,
                   comicOutput, downloadDisplay, downloadHref, conv, alertOpen, lastRequest>>
    /\ previewFailed' = TRUE
    /\ UNCHANGED outputSource
    /\ UNCHANGED <<optVars, harnessVars>>

\* variant: the loading state is entered before the guard is evaluated
HandleConvertNoFile_LoadsFirst ==
    /\ ~alertOpen
    /\ ~convertDisabled
    /\ uploadedFile = NoFile
    /\ setLoadingState(TRUE)
    /\ alertOpen' = TRUE
    /\ UNCHANGED <<uploadedFile, fileNameText, originalSrc, previewReads, downloadHref, conv,
                   lastRequest>>
    /\ outputSource' = NoFile
    /\ UNCHANGED previewFailed
    /\ UNCHANGED <<optVars, harnessVars>>

\* a click on the convert button with no file selected: the guard of
\* handleConvertToComic opens the alert and returns
HandleConvertNoFile ==
    /\ ~alertOpen
    /\ ~convertDisabled
    /\ uploadedFile = NoFile
    /\ alertOpen' = TRUE
    /\ UNCHANGED <<uploadedFile, fileNameText, originalSrc, previewReads, convertDisabled,
                   convertText, comicOutput, downloadDisplay, downloadHref, conv,
                   lastRequest>>
    /\ UNCHANGED histVars
    /\ UNCHANGED <<optVars, harnessVars>>

\* the user closes the alert; the event loop runs again
DismissAlert ==
    /\ alertOpen
    /\ alertOpen' = FALSE
    /\ UNCHANGED <<uploadedFile, fileNameText, originalSrc, previewReads, convertDisabled,
                   convertText, comicOutput, downloadDisplay, downloadHref, conv,
                   lastRequest>>
    /\ UNCHANGED histVars
    /\ UNCHANGED <<optVars, harnessVars>>

\* the activation record a click takes: the lowest one not in use
FreeConv == CHOOSE c \in ConvIds : conv[c].pc = "idle" /\ \A d \in 1..(c - 1) : conv[d].pc # "idle"

\* a click on the convert button with a file selected: handleConvertToComic
\* up to its first await (setLoadingState(true), fileToBase64 started)
HandleConvertStart ==
    /\ ~alertOpen
    /\ ~convertDisabled
    /\ uploadedFile # NoFile
    /\ \E c \in ConvIds : conv[c].pc = "idle"
    /\ setLoadingState(TRUE)
    /\ conv' = [conv EXCEPT ![FreeConv] = [pc |-> "reading", file |-> uploadedFile]]
    /\ UNCHANGED <<uploadedFile, fileNameText, originalSrc, previewReads, downloadHref,
                   alertOpen, lastRequest>>
    /\ outputSource' = NoFile
    /\ UNCHANGED previewFailed
    /\ UNCHANGED <<optVars, harnessVars>>

\* fileToBase64 of conversion c resolves: mimeType and the prompt are read
\* now, and the remote call is issued
ReadResolve(c) ==
    /\ ~alertOpen
    /\ conv[c].pc = "reading"
    /\ lastRequest' = [data |-> FilePayload[conv[c].file],
                       mimeType |-> FileType(uploadedFile),
                       text |-> PromptFor[comicStyle, keepBackground, addFrame]]
    /\ conv' = [conv EXCEPT ![c].pc = "calling"]
    /\ UNCHANGED <<uploadedFile, fileNameText, originalSrc, previewReads, convertDisabled,
                   convertText, comicOutput, downloadDisplay, downloadHref, alertOpen>>
    /\ UNCHANGED histVars
    /\ UNCHANGED <<optVars, harnessVars>>

\* fileToBase64 of conversion c rejects: catch, then finally
ReadReject(c) ==
    /\ ~alertOpen
    /\ conv[c].pc = "reading"
    /\ CatchError
    /\ setLoadingState(FALSE)
    /\ conv' = [conv EXCEPT ![c] = IdleConv]
    /\ UNCHANGED <<uploadedFile, fileNameText, originalSrc, previewReads, alertOpen,
                   lastRequest>>
    /\ outputSource' = NoFile
    /\ UNCHANGED previewFailed
    /\ UNCHANGED <<optVars, harnessVars>>

\* the remote call of conversion c resolves with resp: line 108, then finally
RemoteResolve(c, resp) ==
    /\ ~alertOpen
    /\ conv[c].pc = "calling"
    /\ IF ResponseThrows(resp)
       THEN CatchError
       ELSE displayResult(resp[1].parts)
    /\ setLoadingState(FALSE)
    /\ conv' = [conv EXCEPT ![c] = IdleConv]
    /\ UNCHANGED <<uploadedFile, fileNameText, originalSrc, previewReads, alertOpen,
                   lastRequest>>
    /\ outputSource' = IF ~ResponseThrows(resp) /\ FindImagePart(resp[1].parts) # 0
                      THEN conv[c].file ELSE NoFile
    /\ UNCHANGED previewFailed
    /\ UNCHANGED <<optVars, harnessVars>>

\* variant: the cleanup sits at the end of the try block, so a rejection skips it
RemoteReject_NoFinally(c) ==
    /\ ~alertOpen
    /\ conv[c].pc = "calling"
    /\ CatchError
    /\ conv' = [conv EXCEPT ![c] = IdleConv]
    /\ UNCHANGED <<uploadedFile, fileNameText, originalSrc, previewReads, alertOpen,
                   lastRequest, convertDisabled, convertText>>
    /\ outputSource' = NoFile
    /\ UNCHANGED previewFailed
    /\ UNCHANGED <<optVars, harnessVars>>

\* the remote call of conversion c rejects: catch, then finally
RemoteReject(c) ==
    /\ ~alertOpen
    /\ conv[c].pc = "calling"
    /\ CatchError
    /\ setLoadingState(FALSE)
    /\ conv' = [conv EXCEPT ![c] = IdleConv]
    /\ UNCHANGED <<uploadedFile, fileNameText, originalSrc, previewReads, alertOpen,
                   lastRequest>>
    /\ outputSource' = NoFile
    /\ UNCHANGED previewFailed
    /\ UNCHANGED <<optVars, harnessVars>>

\* the conversion workflow.  The preview reader's callbacks write originalSrc
\* only, which nothing here reads; they run under SpecPreview.
Next ==
    \/ \E f \in Files : HandleFileChange(f)
    \/ HandleFileChangeEmpty
    \/ HandleConvertNoFile
    \/ DismissAlert
    \/ HandleConvertStart
    \/ \E c \in ConvIds : ReadResolve(c)
    \/ \E c \in ConvIds : ReadReject(c)
    \/ \E c \in ConvIds, resp \in Responses : RemoteResolve(c, resp)
    \/ \E c \in ConvIds : RemoteReject(c)

Spec == Init /\ [][Next]_vars

\* the conversion workflow together with the callbacks of the preview readers
NextPreview ==
    \/ Next
    \/ \E f \in Files : PreviewLoad(f)
    \/ \E f \in Files : PreviewError(f)

SpecPreview == Init /\ [][NextPreview]_vars

\* the pending asynchronous operation of conversion c settles: its file read
\* fires load or error, or its remote call resolves or rejects
Settle(c) ==
    \/ ReadResolve(c)
    \/ ReadReject(c)
    \/ RemoteReject(c)
    \/ \E resp \in Responses : RemoteResolve(c, resp)

\* every started file read and every issued remote call settles
FairSpec == Spec /\ \A c \in ConvIds : WF_vars(Settle(c))

(* --------------------------- prompt harness ---------------------------- *)
\* the user picks an entry of the style selector
SelectStyle(s) ==
    /\ comicStyle' = s
    /\ UNCHANGED <<keepBackground, addFrame, ctlVars, harnessVars, histVars>>

\* the user flips the keep-background checkbox
ToggleKeepBackground ==
    /\ keepBackground' = ~keepBackground
    /\ UNCHANGED <<comicStyle, addFrame, ctlVars, harnessVars, histVars>>

\* the user flips the add-frame checkbox
ToggleAddFrame ==
    /\ addFrame' = ~addFrame
    /\ UNCHANGED <<comicStyle, keepBackground, ctlVars, harnessVars, histVars>>

\* buildPrompt() is called: it reads the three controls
CallBuildPrompt ==
    /\ promptCall' = [style |-> comicStyle, keepBackground |-> keepBackground,
                      addFrame |-> addFrame,
                      result |-> buildPrompt(comicStyle, keepBackground, addFrame)]
    /\ UNCHANGED <<optVars, ctlVars, codecVars, displayParts, histVars>>

NextPrompt ==
    \/ \E s \in Styles : SelectStyle(s)
    \/ ToggleKeepBackground
    \/ ToggleAddFrame
    \/ CallBuildPrompt

SpecPrompt == Init /\ [][NextPrompt]_vars

\* the conversion workflow with a style selector that also offers a value
\* outside the style table
NextStyle ==
    \/ Next
    \/ \E s \in StyleOptions : SelectStyle(s)

SpecStyle == Init /\ [][NextStyle]_vars

(* ---------------------------- codec harness ---------------------------- *)
RECURSIVE SeqsUpTo(_, _)
\* all sequences over S of length at most n
SeqsUpTo(S, n) ==
    IF n = 0 THEN {<<>>}
    ELSE LET shorter == SeqsUpTo(S, n - 1)
         IN  shorter \cup {Append(q, x) : q \in {r \in shorter : Len(r) = n - 1}, x \in S}

\* byte values the files under test are made of
ByteValues == {0, 77, 255}

\* the files handed to the codec: every MIME type with every content
CodecFiles ==
    {[type |-> MimeTypes[t], bytes |-> b] :
        t \in 1..Len(MimeTypes), b \in SeqsUpTo(ByteValues, MaxBytes)}

\* a file is chosen; both reads of it are still to come
CodecPick(file) ==
    /\ codecFile' = file
    /\ codecPreview' = Pending
    /\ codecPayload' = Pending
    /\ UNCHANGED <<ctlVars, optVars, promptCall, displayParts, histVars>>

\* the preview reader's onload: e.target.result (lines 44 to 46)
CodecPreviewLoad ==
    /\ codecFile # NoCodecFile
    /\ codecPreview = Pending
    /\ codecPreview' = ReadAsDataURL(codecFile.type, codecFile.bytes)
    /\ UNCHANGED <<codecFile, codecPayload, ctlVars, optVars, promptCall, displayParts, histVars>>

\* fileToBase64(file) resolves
CodecEncode ==
    /\ codecFile # NoCodecFile
    /\ codecPayload = Pending
    /\ codecPayload' = FileToBase64(codecFile.type, codecFile.bytes)
    /\ UNCHANGED <<codecFile, codecPreview, ctlVars, optVars, promptCall, displayParts, histVars>>

NextCodec ==
    \/ \E file \in CodecFiles : CodecPick(file)
    \/ CodecPreviewLoad
    \/ CodecEncode

SpecCodec == Init /\ [][NextCodec]_vars

(* --------------------------- display harness -------------------------- *)
\* longest parts list handed to displayResult
MaxParts == 3

\* the parts a response is made of: a text part and two different images
PartPool == {TextPart, ImagePartA, ImagePartB}

PartsLists == SeqsUpTo(PartPool, MaxParts)

\* displayResult(parts) is called with the parts of a response
DisplayCall(parts) ==
    /\ displayResult(parts)
    /\ displayParts' = [called |-> TRUE, parts |-> parts]
    /\ UNCHANGED <<uploadedFile, fileNameText, originalSrc, previewReads, convertDisabled,
                   convertText, conv, alertOpen, lastRequest>>
    /\ UNCHANGED <<optVars, promptCall, codecVars, histVars>>

\* displayResult is applied to every parts list, in every state of the output
\* and download controls that file selections and earlier calls leave behind
NextDisplay ==
    \/ \E parts \in PartsLists : DisplayCall(parts)
    \/ \E f \in Files : HandleFileChange(f)

SpecDisplay == Init /\ [][NextDisplay]_vars

(* ======================================================================= *)
(*                                 claims                                  *)
(* ======================================================================= *)

\* C1: at most one conversion is outstanding at any time.
C1_AtMostOneOutstanding == Cardinality(Outstanding) <= 1

\* C2: whenever a conversion is outstanding, the convert control is disabled.
C2_OutstandingImpliesDisabled == Outstanding # {} => convertDisabled

\* C3: a convert click with no file selected only raises the warning: while
\* no file is selected no read is in progress and the remote client has not
\* been invoked, and the step that opens the alert leaves uploadedFile, the
\* convert control, the output container and the download control unchanged.
C3_NoFileOnlyWarns ==
    /\ [](uploadedFile = NoFile => (Outstanding = {} /\ lastRequest = NoRequest))
    /\ [][(uploadedFile = NoFile /\ ~alertOpen /\ alertOpen')
            => UNCHANGED <<uploadedFile, convertDisabled, convertText, comicOutput,
                           downloadDisplay, downloadHref, conv, lastRequest>>]_vars

\* the warning is showing after a click with no file selected
C3_Witness == alertOpen /\ uploadedFile = NoFile /\ ~convertDisabled

\* C4: whenever a conversion is outstanding, the convert control eventually
\* is enabled again with its idle label; the step that completes a conversion
\* leaves it so whatever the outcome; and with a file selected the control is
\* never disabled (nor the busy label shown) while no conversion is
\* outstanding.
C4_AlwaysReenabled ==
    /\ (Outstanding # {}) ~> (~convertDisabled /\ convertText = LabelIdle)
    /\ [][\A c \in ConvIds :
            (conv[c].pc # "idle" /\ conv'[c].pc = "idle")
                => (~convertDisabled' /\ convertText' = LabelIdle)]_vars
    /\ []((Outstanding = {} /\ uploadedFile # NoFile)
            => (~convertDisabled /\ convertText = LabelIdle))

\* a conversion has failed and the control is interactive again
C4_Witness ==
    /\ comicOutput = GenericError
    /\ Outstanding = {}
    /\ ~convertDisabled
    /\ convertText = LabelIdle

\* a conversion completes without an image: read error, rejection, or a
\* response whose candidates or parts are missing
CompletesWithFailure ==
    \E c \in ConvIds :
        \/ ReadReject(c)
        \/ RemoteReject(c)
        \/ \E resp \in Responses : ResponseThrows(resp) /\ RemoteResolve(c, resp)

\* a conversion completes with a well-formed response that has no image part
CompletesWithoutImage ==
    \E c \in ConvIds, resp \in Responses :
        /\ ~ResponseThrows(resp)
        /\ FindImagePart(resp[1].parts) = 0
        /\ RemoteResolve(c, resp)

\* C5: right after a conversion completes with a failure or without an image
\* part, the output container shows the matching error message (the generic
\* one for a failure, "Could not generate" for a response without image) and
\* the download control is hidden.
C5_FailureHidesDownload ==
    [][/\ CompletesWithFailure
            => (comicOutput' = GenericError /\ downloadDisplay' = "none")
       /\ CompletesWithoutImage
            => (comicOutput' = NoImageMessage /\ downloadDisplay' = "none")]_vars

\* a conversion completes with a response that has an image part
CompletesWithImage(url) ==
    \E c \in ConvIds, resp \in Responses :
        /\ ~ResponseThrows(resp)
        /\ FindImagePart(resp[1].parts) # 0
        /\ LET part == resp[1].parts[FindImagePart(resp[1].parts)]
           IN  url = "data:" \o part.inlineData.mimeType \o ";base64," \o part.inlineData.data
        /\ RemoteResolve(c, resp)

GeneratedUrls ==
    {"data:" \o p.inlineData.mimeType \o ";base64," \o p.inlineData.data :
        p \in {ImagePartA, ImagePartB}}

\* C6: a completion with an image part shows exactly that image and offers
\* it for download; and in every state a visible download control goes with
\* a displayed image whose source is the download href.
C6_DownloadMatchesImage ==
    /\ [][\A url \in GeneratedUrls :
            CompletesWithImage(url)
                => /\ comicOutput' = ImageNode(url)
                   /\ downloadDisplay' = "inline-block"
                   /\ downloadHref' = url]_vars
    /\ [](downloadDisplay # "none"
            => /\ Len(comicOutput) = 1
               /\ comicOutput[1].tag = "img"
               /\ comicOutput[1].src = downloadHref)

\* C7: a file selection with a non-empty list, from any state, leaves
\* uploadedFile the chosen file, the convert control enabled, the download
\* control hidden and the output container showing the placeholder.
C7_FileChangeLeadsToReady ==
    [][\A f \in Files :
        HandleFileChange(f)
            => /\ uploadedFile' = f
               /\ fileNameText' = FileName(f)
               /\ ~convertDisabled'
               /\ downloadDisplay' = "none"
               /\ comicOutput' = Placeholder]_vars

\* a file was selected while a conversion was outstanding
C7_Witness ==
    /\ Outstanding # {}
    /\ uploadedFile \in Files
    /\ comicOutput = Placeholder
    /\ ~convertDisabled

\* position of the first occurrence of sub in s, 0 when there is none
FirstIndex(s, sub) ==
    IF Contains(s, sub)
    THEN CHOOSE i \in 1..(Len(s) - Len(sub) + 1) :
            /\ SubSeq(s, i, i + Len(sub) - 1) = sub
            /\ \A j \in 1..(i - 1) : SubSeq(s, j, j + Len(sub) - 1) # sub
    ELSE 0

\* C8: the prompt of every buildPrompt call starts with the base instruction
\* and contains the clause of the selected style exactly once and the clause
\* of no other style.
C8_StyleClause ==
    promptCall # NoPromptCall =>
        /\ StartsWith(promptCall.result, baseInstruction)
        /\ Occurrences(promptCall.result, styleMap[promptCall.style]) = 1
        /\ \A other \in Styles \ {promptCall.style} :
                ~Contains(promptCall.result, styleMap[other])

\* buildPrompt was called with the last style selected and both boxes ticked
C8_Witness ==
    /\ promptCall # NoPromptCall
    /\ promptCall.style = "cel-shade"
    /\ promptCall.keepBackground
    /\ promptCall.addFrame

\* C9: the prompt contains the background clause iff keepBackground is
\* unchecked and the frame clause iff addFrame is checked; the clauses come
\* in the order base, style, background, frame with nothing after them; and
\* the 16 settings of the controls give 16 different prompts.
C9_FlagClauses ==
    /\ promptCall # NoPromptCall =>
        LET r == promptCall.result
            iStyle == FirstIndex(r, styleMap[promptCall.style])
            iBack == FirstIndex(r, backgroundClause)
            iFrame == FirstIndex(r, frameClause)
            endStyle == iStyle + Len(styleMap[promptCall.style])
            endBack == IF iBack = 0 THEN endStyle ELSE iBack + Len(backgroundClause)
            endFrame == IF iFrame = 0 THEN endBack ELSE iFrame + Len(frameClause)
        IN  /\ (iBack # 0) <=> ~promptCall.keepBackground
            /\ (iFrame # 0) <=> promptCall.addFrame
            /\ iStyle = Len(baseInstruction) + 2
            /\ iBack # 0 => iBack = endStyle
            /\ iFrame # 0 => iFrame = endBack
            /\ Len(r) = endFrame - 1
    /\ Cardinality({buildPrompt(s, k, f) : s \in Styles, k \in BOOLEAN, f \in BOOLEAN}) = 16

\* buildPrompt was called with the background kept and no frame: neither
\* optional clause is present
C9_Witness ==
    /\ promptCall # NoPromptCall
    /\ promptCall.keepBackground
    /\ ~promptCall.addFrame
    /\ ~Contains(promptCall.result, backgroundClause)
    /\ ~Contains(promptCall.result, frameClause)

\* C10: once both reads of a file have fired, the value fileToBase64 resolved
\* with is the base64 text of the file's bytes, and wrapping it as
\* "data:<type>;base64,<payload>" gives the data URI of the preview path.
C10_CodecRoundTrip ==
    (codecFile # NoCodecFile /\ codecPreview # Pending /\ codecPayload # Pending) =>
        /\ codecPayload = Base64Encode(codecFile.bytes)
        /\ "data:" \o codecFile.type \o ";base64," \o codecPayload = codecPreview

\* both reads of a three-byte file have fired
C10_Witness ==
    /\ codecFile # NoCodecFile
    /\ Len(codecFile.bytes) = 3
    /\ codecPreview # Pending
    /\ codecPayload # Pending

\* C11: a style value outside the style table is a configuration error: every
\* request sent to the remote client carries a prompt that contains the
\* clause of one of the four styles of the table.
C11_NoRequestWithoutStyleClause ==
    lastRequest # NoRequest =>
        \E s \in Styles : Contains(lastRequest.text, styleMap[s])

\* the data URL displayResult builds from a part carrying inline data
PartUrl(part) ==
    "data:" \o part.inlineData.mimeType \o ";base64," \o part.inlineData.data

\* what the output container must hold after displayResult(parts)
ShowsFirstImage(parts, output) ==
    IF \E i \in 1..Len(parts) : parts[i].inlineData # NoData
    THEN \E i \in 1..Len(parts) :
            /\ parts[i].inlineData # NoData
            /\ \A j \in 1..(i - 1) : parts[j].inlineData = NoData
            /\ output = ImageNode(PartUrl(parts[i]))
    ELSE output = NoImageMessage

\* C12: for every parts list, displayResult shows the image of the first part
\* that carries inline image data, and shows the "could not generate" message
\* exactly when no part carries inline image data.
C12_DisplaysFirstImage ==
    [][LET parts == displayParts'.parts IN
          DisplayCall(parts) =>
              /\ ShowsFirstImage(parts, comicOutput')
              /\ (comicOutput' = NoImageMessage) <=>
                     (\A i \in 1..Len(parts) : parts[i].inlineData = NoData)]_vars

\* a call with a text part first and two different images after it has shown
\* the first of the two images
C12_Witness ==
    /\ displayParts.called
    /\ displayParts.parts = <<TextPart, ImagePartB, ImagePartA>>
    /\ comicOutput = ImageNode(PartUrl(ImagePartB))

\* C13: the remote client is invoked only by a conversion whose file read has
\* just resolved; a conversion whose read fails never invokes it, shows the
\* generic error message, leaves the download control hidden and the convert
\* control enabled.
C13_ReadBeforeRemote ==
    [][/\ lastRequest' # lastRequest =>
              \E c \in ConvIds : conv[c].pc = "reading" /\ conv'[c].pc = "calling"
       /\ \A c \in ConvIds :
              ReadReject(c) =>
                  /\ lastRequest' = lastRequest
                  /\ conv'[c].pc = "idle"
                  /\ comicOutput' = GenericError
                  /\ downloadDisplay' = "none"
                  /\ ~convertDisabled'
                  /\ convertText' = LabelIdle]_vars

\* C14: when no conversion is outstanding the output container does not show
\* the spinner, and every step that completes a conversion leaves an image or
\* a message in the output container, whatever else is going on.
C14_NoSpinnerWhenIdle ==
    /\ [](Outstanding = {} => comicOutput # Spinner)
    /\ [][\A c \in ConvIds :
              (conv[c].pc # "idle" /\ conv'[c].pc = "idle") =>
                  /\ comicOutput' # Spinner
                  /\ \/ comicOutput' \in {GenericError, NoImageMessage}
                     \/ comicOutput' = ImageNode(downloadHref')]_vars

\* a conversion has failed and left its error message, none is outstanding
C14_Witness ==
    /\ Outstanding = {}
    /\ comicOutput = GenericError
    /\ convertText = LabelIdle

\* the output container shows a generated image
ShowsGeneratedImage == outputSource # NoFile /\ comicOutput = ImageNode(downloadHref)

\* C15: whenever the output container shows a generated image, the image was
\* generated from the file that is selected now.
C15_ImageFromSelectedFile ==
    ShowsGeneratedImage => outputSource = uploadedFile

\* C16: the payload and the MIME type of every remote request are those of
\* one and the same file.
C16_RequestOfOneFile ==
    lastRequest # NoRequest =>
        \E f \in Files : /\ lastRequest.data = FilePayload[f]
                         /\ lastRequest.mimeType = FileType(f)

\* C17: once every preview read has completed (none of them with an error),
\* the original-image preview shows the file that is selected now.
C17_PreviewShowsSelectedFile ==
    (uploadedFile # NoFile /\ previewReads = {} /\ ~previewFailed) =>
        originalSrc = FileDataURL[uploadedFile]

\* C18: a file-selection event with an empty file list changes nothing; once
\* a file has been selected, uploadedFile is never empty again and the no-file
\* guard of the convert action never opens its alert again.
C18_EmptySelectionChangesNothing ==
    [][/\ HandleFileChangeEmpty =>
              UNCHANGED <<uploadedFile, fileNameText, originalSrc, previewReads,
                          convertDisabled, convertText, comicOutput,
                          downloadDisplay, downloadHref>>
       /\ uploadedFile # NoFile =>
              /\ uploadedFile' # NoFile
              /\ alertOpen' => alertOpen]_vars

\* a file was selected and a later click on the convert control passed the
\* no-file guard and started a conversion
C18_Witness ==
    /\ uploadedFile \in Files
    /\ ~alertOpen
    /\ \E c \in ConvIds : conv[c].pc = "reading" /\ conv[c].file = uploadedFile

====
